---- MODULE Spec2Model ----
(***************************************************************************)
(* Model of build_containers.py: the ContainerBuilder stages (build_clang, *)
(* build_devcontainer, build_all), the prerequisite query _image_exists,   *)
(* the event loop _stream_build_output and main's dispatch.                *)
(*                                                                         *)
(* The container engine is the environment: every call the program makes   *)
(* to it (images.get, api.build, pulling the next chunk of a build stream) *)
(* is one step whose answer is chosen from the answers the engine can      *)
(* give.  Printed text is kept as the sequence of strings handed to        *)
(* print(); the pictographs that prefix some messages are left out.        *)
(***************************************************************************)
EXTENDS Integers, Sequences, FiniteSets, TLC

VARIABLES
    pc,          \* position of the program: the function about to run
    args,        \* the argparse namespace of this invocation
    call,        \* arguments of the stage function being executed
    attempts,    \* stages entered so far, in order
    returns,     \* <<[stage, rc]>> for every stage that returned
    raises,      \* <<[stage, exc]>> for every stage left by an exception
    calls,       \* calls to the engine, to open()/close(), and _image_exists' answers
    chunks,      \* per stage: the chunks pulled from the build stream
    events_left, \* chunks the engine may still emit in this invocation
    log_handle,  \* the file object of _stream_build_output
    files,       \* the log files on disk: path -> contents
    stdout,      \* strings printed to standard output
    stderr,      \* strings printed to standard error
    exit_code,   \* the value main returned (NoInt while running or raised)
    escaped,     \* type of the exception that left main, or None
    earlier      \* what is known of the invocations before this one

vars == <<pc, args, call, attempts, returns, raises, calls, chunks,
          events_left, log_handle, files, stdout, stderr, exit_code, escaped,
          earlier>>

(***************************************************************************)
(* Bounds of the model and the program's constants.                        *)
(***************************************************************************)
None == "None"

Versions == {20, 21}
TagSuffixes == {"", "-dbg"}
GitRefs == {None, "main"}
MaxEvents == 3

\* an integer that is not there: main has not returned, an argument the
\* sub-command does not define
NoInt == 0 - 1

default_jobs == 4
default_git_url == "https://github.com/llvm/llvm-project.git"
root_dir == "/repo"

Stages == {"clang", "devcontainer"}

(***************************************************************************)
(* Raw engine events (decode=True yields dicts).  A key that is absent     *)
(* from the dict is None here.  The events the engine is let to emit: a    *)
(* text, a text that has an 'error' key as well, a status with an id, a    *)
(* status without id that has an 'error' key as well, an error, and an     *)
(* event with none of the keys the loop looks at.                          *)
(***************************************************************************)
Chunk(stream, status, id, error) ==
    [stream |-> stream, status |-> status, id |-> id, error |-> error]

Chunks ==
    { Chunk("a", None, None, None),
      Chunk("b", None, None, "boom"),
      Chunk(None, "Pulling", "layer1", None),
      Chunk(None, "Pulling", None, "boom"),
      Chunk(None, None, None, "boom"),
      Chunk(None, None, None, None) }

(***************************************************************************)
(* Exceptions.  BuildError, ImageNotFound and APIError are docker.errors   *)
(* classes; ImageNotFound is a subclass of APIError, all three and         *)
(* "Exception" are subclasses of Exception, KeyboardInterrupt is not.      *)
(***************************************************************************)
Exc(type, msg) == [type |-> type, msg |-> msg]

NoExc == Exc(None, "")
KeyboardInterrupt == Exc("KeyboardInterrupt", "")
ImageNotFound == Exc("ImageNotFound", "404 Client Error: No such image")

\* what an engine call can raise besides its regular answer
EngineFaults ==
    { Exc("APIError", "500 Server Error"),
      Exc("Exception", "Connection aborted"),
      KeyboardInterrupt }

IsException(exc) == exc.type \in {"BuildError", "ImageNotFound", "APIError", "Exception"}

IsAPIError(exc) == exc.type \in {"ImageNotFound", "APIError"}

(***************************************************************************)
(* String formatting.                                                      *)
(***************************************************************************)
str(n) == ToString(n)

print(s) == s \o "\n"

git_ref_or_default(version, git_ref) ==
    IF git_ref = None THEN "llvmorg-" \o str(version) \o ".1.2" ELSE git_ref

clang_tag(version, tag_suffix) == "clang-ubuntu:" \o str(version) \o tag_suffix

\* one log for every version
log_file_path_one(version) == root_dir \o "/build-clang.log"

log_file_path(version) == root_dir \o "/build-clang-" \o str(version) \o ".log"

\* the base image named without the family of the Compiler stage's tag
clang_base_image_other(clang_version, tag_suffix) ==
    "clang:" \o str(clang_version) \o tag_suffix

clang_base_image(clang_version, tag_suffix) ==
    "clang-ubuntu:" \o str(clang_version) \o tag_suffix

devcontainer_tag(clang_version, tag_suffix) ==
    "devcontainer-clang:" \o str(clang_version) \o tag_suffix

clang_build_args(git_ref, git_url, jobs) ==
    "{'LLVM_GIT_REF': '" \o git_ref \o "', 'LLVM_GIT_URL': '" \o git_url
        \o "', 'NUM_JOBS': '" \o str(jobs) \o "'}"

devcontainer_build_args(base_image) == "{'CLANG_BASE_IMAGE': '" \o base_image \o "'}"

LogPaths == { log_file_path(v) : v \in Versions }

(***************************************************************************)
(* The file object used for the build log.  write() fills the buffer,      *)
(* flush() and close() move the buffer to the file on disk.                *)
(***************************************************************************)
NoHandle == [path |-> None, buf |-> "", closed |-> TRUE]

IsOpen(h) == h.path # None /\ ~h.closed

\* open(log_file, 'a'): an existing file keeps its contents
open_a(fs, path) ==
    [p \in (DOMAIN fs) \cup {path} |-> IF p \in DOMAIN fs THEN fs[p] ELSE ""]

\* open(log_file, 'w'): the file is created or truncated
open_w(fs, path) == [p \in (DOMAIN fs) \cup {path} |-> IF p = path THEN "" ELSE fs[p]]

new_handle(path) == [path |-> path, buf |-> "", closed |-> FALSE]

write(h, text) == [h EXCEPT !.buf = @ \o text]

flushed(h) == [h EXCEPT !.buf = ""]

closed_handle(h) == [h EXCEPT !.buf = "", !.closed = TRUE]

\* the file on disk after the buffer of h has been written out
on_disk(fs, h) == [fs EXCEPT ![h.path] = @ \o h.buf]

(***************************************************************************)
(* Records of the calls the program makes to the engine and to the file    *)
(* system, with the answer each got.                                       *)
(***************************************************************************)
Call(op, stage, arg, resp) == [op |-> op, stage |-> stage, arg |-> arg, resp |-> resp]

StageCall(version, git_ref, git_url, jobs, tag_suffix) ==
    [version |-> version, git_ref |-> git_ref, git_url |-> git_url,
     jobs |-> jobs, tag_suffix |-> tag_suffix]

NoCall == StageCall(NoInt, None, default_git_url, default_jobs, "")

Returned(rc) == [kind |-> "return", rc |-> rc, exc |-> NoExc]

Raised(exc) == [kind |-> "raise", rc |-> NoInt, exc |-> exc]

(***************************************************************************)
(* Initial state: the process has started, nothing has been parsed.  The   *)
(* log of an earlier build lies at the log path of one version, the log    *)
(* path of the other version does not exist yet.                           *)
(***************************************************************************)
OldLog == "old\n"

OldVersions == {20}

NoArgs ==
    [command |-> None, version |-> NoInt, git_ref |-> None,
     git_url |-> default_git_url, jobs |-> default_jobs,
     tag_suffix |-> "", dry_run |-> FALSE, verbose |-> FALSE]

\* no invocation came before: runs holds what earlier invocations were given
\* and did, builds the chunks of the latest build that opened each log
NoEarlier == [runs |-> << >>, builds |-> << >>, again |-> FALSE]

\* the process starts with an engine that emits at most budget chunks
Start(budget) ==
    /\ pc = "main"
    /\ args = NoArgs
    /\ call = NoCall
    /\ attempts = << >>
    /\ returns = << >>
    /\ raises = << >>
    /\ calls = << >>
    /\ chunks = [s \in Stages |-> << >>]
    /\ events_left = budget
    /\ log_handle = NoHandle
    /\ files = [p \in { log_file_path(v) : v \in OldVersions } |-> OldLog]
    /\ stdout = << >>
    /\ stderr = << >>
    /\ exit_code = NoInt
    /\ escaped = None
    /\ earlier = NoEarlier

Init == Start(MaxEvents)

(***************************************************************************)
(* How control leaves a stage and what its callers do with it.             *)
(***************************************************************************)
\* main, lines 386-388: the only handler of main
main_catches(exc) == exc.type = "KeyboardInterrupt"

\* build_all going on whatever a stage returned
build_all_never_halts(result) == FALSE

\* build_all, lines 258-259 and 263-264: "if result != 0: return result"
build_all_halts(result) == result # 0

\* main returns rc (lines 364, 372, 377) and the process exits with it
main_returns(rc, out, err) ==
    /\ pc' = "done"
    /\ exit_code' = rc
    /\ escaped' = None
    /\ stdout' = out
    /\ stderr' = err
    /\ call' = NoCall

\* an exception reaches main's try (lines 362-388)
main_except(exc, out, err) ==
    IF main_catches(exc)
    THEN main_returns(130, out, err \o <<print("\nBuild interrupted by user")>>)
    ELSE /\ pc' = "done"
         /\ exit_code' = NoInt
         /\ escaped' = exc.type
         /\ stdout' = out
         /\ stderr' = err
         /\ call' = NoCall

\* build_all running a stage once more after its first failure
build_all_resume_retries(stage, rc, out, err) ==
    IF build_all_halts(rc) /\ ~\E i \in DOMAIN returns : returns[i].stage = stage
    THEN /\ pc' = IF stage = "clang" THEN "build_clang" ELSE "build_devcontainer"
         /\ call' = call
         /\ stdout' = out
         /\ stderr' = err
         /\ UNCHANGED <<exit_code, escaped>>
    ELSE IF build_all_halts(rc)
    THEN main_returns(rc, out, err)
    ELSE IF stage = "clang"
    THEN /\ pc' = "build_devcontainer"
         /\ call' = StageCall(args.version, None, default_git_url, default_jobs, "")
         /\ stdout' = out
         /\ stderr' = err
         /\ UNCHANGED <<exit_code, escaped>>
    ELSE main_returns(0,
            out \o <<print("\nSuccessfully built all containers for Clang "
                           \o str(args.version))>>,
            err)

\* build_all after one of its stages returned rc (lines 257-267)
build_all_resume(stage, rc, out, err) ==
    IF build_all_halts(rc)
    THEN main_returns(rc, out, err)
    ELSE IF stage = "clang"
    THEN /\ pc' = "build_devcontainer"
         /\ call' = StageCall(args.version, None, default_git_url, default_jobs, "")
         /\ stdout' = out
         /\ stderr' = err
         /\ UNCHANGED <<exit_code, escaped>>
    ELSE main_returns(0,
            out \o <<print("\nSuccessfully built all containers for Clang "
                           \o str(args.version))>>,
            err)

\* a stage function is left, by return or by an exception; out and err are
\* standard output and error as the stage leaves them
leave_stage(stage, how, out, err) ==
    /\ returns' = IF how.kind = "return"
                  THEN Append(returns, [stage |-> stage, rc |-> how.rc])
                  ELSE returns
    /\ raises' = IF how.kind = "raise"
                 THEN Append(raises, [stage |-> stage, exc |-> how.exc.type])
                 ELSE raises
    /\ IF how.kind = "raise"
       THEN main_except(how.exc, out, err)
       ELSE IF args.command = "all"
       THEN build_all_resume(stage, how.rc, out, err)
       ELSE main_returns(how.rc, out, err)

(***************************************************************************)
(* main, lines 354-384: parse the command line, build the ContainerBuilder *)
(* and dispatch.                                                           *)
(***************************************************************************)
\* the namespace argparse produces: an option the sub-command does not
\* define is absent (NoInt, None) or at the default of the callee
Namespaces ==
    { [command |-> None, version |-> NoInt, git_ref |-> None,
       git_url |-> default_git_url, jobs |-> default_jobs, tag_suffix |-> "",
       dry_run |-> d, verbose |-> v] : d \in BOOLEAN, v \in BOOLEAN }
    \cup
    { [command |-> "clang", version |-> n, git_ref |-> g,
       git_url |-> default_git_url, jobs |-> default_jobs, tag_suffix |-> t,
       dry_run |-> d, verbose |-> v] :
         n \in Versions, g \in GitRefs, t \in TagSuffixes, d \in BOOLEAN, v \in BOOLEAN }
    \cup
    { [command |-> "devcontainer", version |-> n, git_ref |-> None,
       git_url |-> default_git_url, jobs |-> default_jobs, tag_suffix |-> t,
       dry_run |-> d, verbose |-> v] :
         n \in Versions, t \in TagSuffixes, d \in BOOLEAN, v \in BOOLEAN }
    \cup
    { [command |-> "all", version |-> n, git_ref |-> g,
       git_url |-> default_git_url, jobs |-> default_jobs, tag_suffix |-> "",
       dry_run |-> d, verbose |-> v] :
         n \in Versions, g \in GitRefs, d \in BOOLEAN, v \in BOOLEAN }

\* the command lines parse_args (line 354) does not return from: it prints
\* and raises SystemExit(code): -h/--help with 0, a missing or malformed
\* required argument (lines 281-285, 310-314, 324-328) with 2
ArgparseExits ==
    { [code |-> 0, stream |-> "stdout", text |-> "usage: build_containers.py [-h]"],
      [code |-> 2, stream |-> "stderr",
       text |-> "build_containers.py clang: error: the following arguments are required: --version"],
      [code |-> 2, stream |-> "stderr",
       text |-> "build_containers.py clang: error: argument --version: invalid int value: 'x'"] }

SystemExit(code) == Exc("SystemExit", str(code))

main ==
    /\ pc = "main"
    /\ UNCHANGED earlier
    /\ \/ \E ns \in Namespaces :
            /\ args' = ns
            /\ IF ns.command = None
               THEN \* lines 356-358: print_help, return 1
                    /\ pc' = "done"
                    /\ exit_code' = 1
                    /\ stdout' = stdout \o <<print("usage: build_containers.py")>>
                    /\ call' = NoCall
               ELSE /\ pc' = IF ns.command = "clang" THEN "build_clang"
                             ELSE IF ns.command = "devcontainer" THEN "build_devcontainer"
                             ELSE "build_all"
                    /\ call' = IF ns.command = "clang"
                               THEN StageCall(ns.version, ns.git_ref, ns.git_url,
                                              ns.jobs, ns.tag_suffix)
                               ELSE IF ns.command = "devcontainer"
                               THEN StageCall(ns.version, None, default_git_url,
                                              default_jobs, ns.tag_suffix)
                               ELSE NoCall
                    /\ UNCHANGED <<exit_code, stdout>>
            /\ UNCHANGED <<stderr, escaped>>
       \/ \E exit \in ArgparseExits :
            \* parse_args leaves main by SystemExit, which main does not catch
            /\ pc' = "done"
            /\ escaped' = SystemExit(exit.code).type \o "(" \o SystemExit(exit.code).msg \o ")"
            /\ stdout' = IF exit.stream = "stdout"
                         THEN stdout \o <<print(exit.text)>> ELSE stdout
            /\ stderr' = IF exit.stream = "stderr"
                         THEN stderr \o <<print(exit.text)>> ELSE stderr
            /\ UNCHANGED <<args, call, exit_code>>
    /\ UNCHANGED <<attempts, returns, raises, calls, chunks, events_left,
                   log_handle, files>>

\* the status sys.exit(main()) (line 392) lets a shell see: main's return
\* value, the code of a SystemExit, 1 after any other exception left main
exit_status ==
    IF escaped = None THEN exit_code
    ELSE IF escaped = "SystemExit(0)" THEN 0
    ELSE IF escaped = "SystemExit(2)" THEN 2
    ELSE 1

(***************************************************************************)
(* build_all, lines 254-257: the header, then build_clang with the default *)
(* git_url and tag_suffix.                                                 *)
(***************************************************************************)
build_all ==
    /\ pc = "build_all"
    /\ UNCHANGED earlier
    /\ stdout' = stdout \o <<print("Building Clang " \o str(args.version)
                                   \o " and devcontainer...")>>
    /\ call' = StageCall(args.version, args.git_ref, default_git_url, args.jobs, "")
    /\ pc' = "build_clang"
    /\ UNCHANGED <<args, attempts, returns, raises, calls, chunks, events_left,
                   log_handle, files, stderr, exit_code, escaped>>

(***************************************************************************)
(* _image_exists, lines 92-101.  resp is the engine's answer to            *)
(* images.get: NoExc when it returned the image, else what it raised.      *)
(***************************************************************************)
ImageGetAnswers == {NoExc, ImageNotFound} \cup EngineFaults

Value(v) == [kind |-> "return", value |-> v, exc |-> NoExc]

Throw(exc) == [kind |-> "raise", value |-> FALSE, exc |-> exc]

\* the engine asked in dry-run too
queries_engine_always(dry_run) == TRUE

\* line 94: in dry-run the engine is not asked
queries_engine(dry_run) == ~dry_run

\* "except APIError: return False": every engine fault counts as a missing image
_image_exists_except_any(dry_run, resp) ==
    IF dry_run THEN Value(TRUE)
    ELSE IF resp = NoExc THEN Value(TRUE)
    ELSE IF IsException(resp) THEN Value(FALSE)
    ELSE Throw(resp)

_image_exists(dry_run, resp) ==
    IF dry_run THEN Value(TRUE)
    ELSE IF resp = NoExc THEN Value(TRUE)
    ELSE IF resp.type = "ImageNotFound" THEN Value(FALSE)
    ELSE Throw(resp)

\* the gate without its test
gate_never_fails(exists) == FALSE

\* line 192: "if not self._image_exists(clang_base_image)"
gate_fails(exists) == ~exists

(***************************************************************************)
(* The try/except of a stage, lines 163-171 and 227-235.                   *)
(***************************************************************************)
\* a bare "except:", which also catches KeyboardInterrupt
stage_catches_all(exc) == TRUE

stage_catches(exc) == IsException(exc)

stage_message(exc) ==
    IF exc.type = "BuildError" THEN "Build failed: " \o exc.msg
    ELSE IF IsAPIError(exc) THEN "Docker API error: " \o exc.msg
    ELSE "Unexpected error: " \o exc.msg

\* handlers that print and fall off the end of the function: no "return 1"
stage_except_falls_through(stage, exc, out, err) ==
    IF stage_catches(exc)
    THEN leave_stage(stage, Returned(0), out, err \o <<print(stage_message(exc))>>)
    ELSE leave_stage(stage, Raised(exc), out, err)

\* an exception raised inside the try of a stage
stage_except(stage, exc, out, err) ==
    IF stage_catches(exc)
    THEN leave_stage(stage, Returned(1), out, err \o <<print(stage_message(exc))>>)
    ELSE leave_stage(stage, Raised(exc), out, err)

(***************************************************************************)
(* _stream_build_output, lines 56-62: the description and the log file.    *)
(***************************************************************************)
\* the log file passed in verbose mode too
clang_log_target_always(verbose, log_file) == log_file

\* line 157: build_clang passes "log_file if not self.verbose else None"
clang_log_target(verbose, log_file) == IF ~verbose THEN log_file ELSE None

\* line 221: build_devcontainer passes None
devcontainer_log_target == None

\* line 61: "if log_file and not self.dry_run"
opens_log(log_file, dry_run) == log_file # None /\ ~dry_run

\* the api.build call of a stage (lines 145-152, 209-216) answered resp, and on
\* a stream the start of _stream_build_output
engine_build(stage, tag, description, log_file, resp) ==
    LET built == Append(calls, Call("api.build", stage, tag, resp.type))
    IN IF resp # NoExc
       THEN /\ calls' = built
            /\ stage_except(stage, resp, stdout, stderr)
            /\ UNCHANGED <<log_handle, files>>
       ELSE /\ pc' = "stream"
            /\ stdout' = stdout \o <<print("\n" \o description)>>
            /\ IF opens_log(log_file, args.dry_run)
               THEN /\ log_handle' = new_handle(log_file)
                    /\ files' = open_w(files, log_file)
                    /\ calls' = Append(built, Call("open", stage, log_file, None))
               ELSE /\ log_handle' = NoHandle
                    /\ calls' = built
                    /\ UNCHANGED files
            /\ UNCHANGED <<call, returns, raises, stderr, exit_code, escaped>>

(***************************************************************************)
(* build_clang, lines 124-158, up to the first chunk of the stream.        *)
(***************************************************************************)
build_clang ==
    /\ pc = "build_clang"
    /\ UNCHANGED earlier
    /\ attempts' = Append(attempts, "clang")
    /\ LET version == call.version
           git_ref == git_ref_or_default(version, call.git_ref)
           tag == clang_tag(version, call.tag_suffix)
           log_file == log_file_path(version)
           build_args == clang_build_args(git_ref, call.git_url, call.jobs)
       IN IF args.dry_run
          THEN /\ leave_stage("clang", Returned(0),
                      stdout \o << print("\n[DRY RUN] Would build Clang " \o str(version)),
                                   print("  Dockerfile: Dockerfile.clang.ubuntu"),
                                   print("  Tag: " \o tag),
                                   print("  Build args: " \o build_args),
                                   print("  Log file: " \o log_file) >>,
                      stderr)
               /\ UNCHANGED <<calls, log_handle, files>>
          ELSE \E resp \in {NoExc} \cup EngineFaults :
                  engine_build("clang", tag,
                      "Building Clang " \o str(version) \o " from " \o git_ref,
                      clang_log_target(args.verbose, log_file), resp)
    /\ UNCHANGED <<args, chunks, events_left>>

(***************************************************************************)
(* The command line of the clang sub-command (lines 280-306) and the       *)
(* command the gate's diagnostic names (line 194).                         *)
(***************************************************************************)
RECURSIVE join(_)
join(argv) ==
    IF argv = << >> THEN ""
    ELSE IF Len(argv) = 1 THEN Head(argv)
    ELSE Head(argv) \o " " \o join(Tail(argv))

\* the value that follows an option, or the option's default
option(argv, name, default) ==
    IF \E i \in 1..(Len(argv) - 1) : argv[i] = name
    THEN argv[(CHOOSE i \in 1..(Len(argv) - 1) : argv[i] = name) + 1]
    ELSE default

\* type=int (line 283): the number a decimal string denotes
int(s) == CHOOSE n \in Versions : str(n) = s

\* "clang --version N [--tag-suffix S]" as the clang sub-parser reads it
\* (lines 281-285: --version, 302-306: --tag-suffix with default "")
parse_clang(argv) ==
    [version |-> int(option(argv, "--version", None)),
     tag_suffix |-> option(argv, "--tag-suffix", "")]

\* the image tag that running "build_containers.py <argv>" gives its build
\* (main, lines 363-370, and build_clang, line 127)
tag_built_by(argv) ==
    clang_tag(parse_clang(argv).version, parse_clang(argv).tag_suffix)

\* line 194: "./build_containers.py clang --version {clang_version}"
hint_argv(clang_version, tag_suffix) == <<"clang", "--version", str(clang_version)>>

(***************************************************************************)
(* build_devcontainer, lines 188-206: the prerequisite gate and dry-run.   *)
(***************************************************************************)
build_devcontainer ==
    /\ pc = "build_devcontainer"
    /\ UNCHANGED earlier
    /\ attempts' = Append(attempts, "devcontainer")
    /\ LET base_image == clang_base_image(call.version, call.tag_suffix)
           tag == devcontainer_tag(call.version, call.tag_suffix)
           build_args == devcontainer_build_args(base_image)
       IN \E resp \in (IF queries_engine(args.dry_run) THEN ImageGetAnswers ELSE {NoExc}) :
            LET exists == _image_exists(args.dry_run, resp)
                answered == Call("_image_exists", "devcontainer", base_image,
                                 IF exists.kind = "raise" THEN exists.exc.type
                                 ELSE IF exists.value THEN "True" ELSE "False")
            IN /\ calls' = IF queries_engine(args.dry_run)
                           THEN calls \o << Call("images.get", "devcontainer",
                                                 base_image, resp.type),
                                            answered >>
                           ELSE Append(calls, answered)
               /\ IF exists.kind = "raise"
                  THEN leave_stage("devcontainer", Raised(exists.exc), stdout, stderr)
                  ELSE IF gate_fails(exists.value)
                  THEN leave_stage("devcontainer", Returned(1), stdout,
                          stderr \o << print("Error: Base image " \o base_image
                                             \o " not found. Build it first with:"),
                                       print("  ./build_containers.py "
                                             \o join(hint_argv(call.version,
                                                               call.tag_suffix))) >>)
                  ELSE IF args.dry_run
                  THEN leave_stage("devcontainer", Returned(0),
                          stdout \o << print("\n[DRY RUN] Would build devcontainer with Clang "
                                             \o str(call.version)),
                                       print("  Dockerfile: Dockerfile.devcontainer.clang"),
                                       print("  Tag: " \o tag),
                                       print("  Build args: " \o build_args) >>,
                          stderr)
                  ELSE /\ pc' = "devcontainer_build"
                       /\ UNCHANGED <<call, returns, raises, stdout, stderr,
                                      exit_code, escaped>>
    /\ UNCHANGED <<args, chunks, events_left, log_handle, files>>

(***************************************************************************)
(* build_devcontainer, lines 208-222: the engine build call.               *)
(***************************************************************************)
devcontainer_build ==
    /\ pc = "devcontainer_build"
    /\ UNCHANGED earlier
    /\ \E resp \in {NoExc} \cup EngineFaults :
          engine_build("devcontainer",
              devcontainer_tag(call.version, call.tag_suffix),
              "Building devcontainer with Clang " \o str(call.version),
              devcontainer_log_target, resp)
    /\ UNCHANGED <<args, attempts, chunks, events_left>>

(***************************************************************************)
(* _stream_build_output, lines 64-90: one turn of "for chunk in stream",   *)
(* and, when the loop is left, the finally clause and the rest of the      *)
(* stage (lines 160-171, 224-235).                                         *)
(***************************************************************************)
\* the 'error' key looked at first
chunk_kind_error_first(chunk) ==
    IF chunk.error # None THEN "error"
    ELSE IF chunk.stream # None THEN "stream"
    ELSE IF chunk.status # None THEN "status"
    ELSE "other"

\* the loop without its 'error' branch
chunk_kind_no_error(chunk) ==
    IF chunk.stream # None THEN "stream"
    ELSE IF chunk.status # None THEN "status"
    ELSE "other"

\* lines 66, 73, 81: the first key found decides
chunk_kind(chunk) ==
    IF chunk.stream # None THEN "stream"
    ELSE IF chunk.status # None THEN "status"
    ELSE IF chunk.error # None THEN "error"
    ELSE "other"

\* the id left out of the status line
status_line_no_id(chunk) == chunk.status

\* lines 76-80
status_line(chunk) ==
    IF chunk.id # None THEN chunk.id \o ": " \o chunk.status ELSE chunk.status

\* line 85
error_marker(error_msg) == "ERROR: " \o error_msg \o "\n"

\* lines 70-72: write and flush
log_text(h, fs, text) ==
    IF h.path # None
    THEN [h |-> flushed(write(h, text)), fs |-> on_disk(fs, write(h, text))]
    ELSE [h |-> h, fs |-> fs]

\* lines 84-85: write, no flush
log_error(h, fs, error_msg) ==
    IF h.path # None
    THEN [h |-> write(h, error_marker(error_msg)), fs |-> fs]
    ELSE [h |-> h, fs |-> fs]

\* the 'error' branch without its raise: the loop goes on after an error
loop_body_no_raise(chunk, verbose, h, fs, out, err) ==
    LET kind == chunk_kind(chunk)
    IN IF kind = "stream"
       THEN [log |-> log_text(h, fs, chunk.stream),
             out |-> IF verbose THEN out \o <<chunk.stream>> ELSE out,
             err |-> err, exc |-> NoExc]
       ELSE IF kind = "status"
       THEN [log |-> [h |-> h, fs |-> fs],
             out |-> IF verbose THEN out \o <<print(status_line(chunk))>> ELSE out,
             err |-> err, exc |-> NoExc]
       ELSE IF kind = "error"
       THEN [log |-> log_error(h, fs, chunk.error),
             out |-> out,
             err |-> err \o <<print("Build error: " \o chunk.error)>>,
             exc |-> NoExc]
       ELSE [log |-> [h |-> h, fs |-> fs], out |-> out, err |-> err, exc |-> NoExc]

\* lines 66-86: the body of the loop for one chunk; exc is what it raises
loop_body(chunk, verbose, h, fs, out, err) ==
    LET kind == chunk_kind(chunk)
    IN IF kind = "stream"
       THEN [log |-> log_text(h, fs, chunk.stream),
             out |-> IF verbose THEN out \o <<chunk.stream>> ELSE out,
             err |-> err, exc |-> NoExc]
       ELSE IF kind = "status"
       THEN [log |-> [h |-> h, fs |-> fs],
             out |-> IF verbose THEN out \o <<print(status_line(chunk))>> ELSE out,
             err |-> err, exc |-> NoExc]
       ELSE IF kind = "error"
       THEN [log |-> log_error(h, fs, chunk.error),
             out |-> out,
             err |-> err \o <<print("Build error: " \o chunk.error)>>,
             exc |-> Exc("BuildError", chunk.error)]
       ELSE [log |-> [h |-> h, fs |-> fs], out |-> out, err |-> err, exc |-> NoExc]

\* no finally clause at all: the log is never closed
finally_never_runs(exc) == FALSE

\* the close placed after the loop instead of in a finally clause
runs_after_loop_only(exc) == exc = NoExc

\* line 87: the clause is a "finally", it runs however the loop is left
\* (exc is NoExc when the stream was exhausted)
finally_runs(exc) == TRUE

\* the notice dedented out of "if log_handle:": printed for every stage
finally_reports_always(h, fs, out, exc) ==
    IF finally_runs(exc) /\ h.path # None
    THEN [h |-> closed_handle(h), fs |-> on_disk(fs, h),
          out |-> out \o <<print("Build log saved to: " \o h.path)>>,
          closes |-> TRUE]
    ELSE [h |-> h, fs |-> fs,
          out |-> out \o <<print("Build log saved to: " \o h.path)>>,
          closes |-> FALSE]

\* lines 87-90
finally(h, fs, out, exc) ==
    IF finally_runs(exc) /\ h.path # None
    THEN [h |-> closed_handle(h), fs |-> on_disk(fs, h),
          out |-> out \o <<print("Build log saved to: " \o h.path)>>,
          closes |-> TRUE]
    ELSE [h |-> h, fs |-> fs, out |-> out, closes |-> FALSE]

\* lines 160 and 224
success_notice(tag) == print("Successfully built " \o tag)

stage_tag(stage) ==
    IF stage = "clang" THEN clang_tag(call.version, call.tag_suffix)
    ELSE devcontainer_tag(call.version, call.tag_suffix)

\* the loop is left: next(stream) answered StopIteration (exc = NoExc) or
\* raised, or the loop body raised BuildError
end_stream(stage, answer, exc, h, fs, out, err) ==
    LET f == finally(h, fs, out, exc)
        pulled == IF answer = None THEN calls
                  ELSE Append(calls, Call("next", stage, stage_tag(stage), answer))
    IN /\ log_handle' = f.h
       /\ files' = f.fs
       /\ calls' = IF f.closes
                   THEN Append(pulled, Call("close", stage, h.path, None))
                   ELSE pulled
       /\ IF exc = NoExc
          THEN leave_stage(stage, Returned(0), f.out \o <<success_notice(stage_tag(stage))>>, err)
          ELSE stage_except(stage, exc, f.out, err)

\* what next(stream) can answer: a chunk, the end of the stream, a fault
StreamAnswers ==
    { [kind |-> "chunk", chunk |-> c, exc |-> NoExc] : c \in Chunks }
    \cup { [kind |-> "stop", chunk |-> Chunk(None, None, None, None), exc |-> NoExc] }
    \cup { [kind |-> "raise", chunk |-> Chunk(None, None, None, None), exc |-> e] :
             e \in EngineFaults }

_stream_build_output ==
    /\ pc = "stream"
    /\ UNCHANGED earlier
    /\ LET stage == attempts[Len(attempts)]
       IN \E answer \in StreamAnswers :
            /\ answer.kind = "chunk" => events_left > 0
            /\ IF answer.kind = "chunk"
               THEN LET r == loop_body(answer.chunk, args.verbose, log_handle,
                                       files, stdout, stderr)
                    IN /\ chunks' = [chunks EXCEPT ![stage] = Append(@, answer.chunk)]
                       /\ events_left' = events_left - 1
                       /\ IF r.exc = NoExc
                          THEN /\ log_handle' = r.log.h
                               /\ files' = r.log.fs
                               /\ stdout' = r.out
                               /\ stderr' = r.err
                               /\ UNCHANGED <<pc, call, returns, raises, calls,
                                              exit_code, escaped>>
                          ELSE end_stream(stage, None, r.exc, r.log.h, r.log.fs,
                                          r.out, r.err)
               ELSE /\ end_stream(stage,
                            IF answer.kind = "stop" THEN "StopIteration"
                            ELSE answer.exc.type,
                            answer.exc, log_handle, files, stdout, stderr)
                    /\ UNCHANGED <<chunks, events_left>>
    /\ UNCHANGED <<args, attempts>>

(***************************************************************************)
(* The program.                                                            *)
(***************************************************************************)
Next ==
    \/ main
    \/ build_all
    \/ build_clang
    \/ build_devcontainer
    \/ devcontainer_build
    \/ _stream_build_output

Spec == Init /\ [][Next]_vars

(***************************************************************************)
(* The program invoked a second time (lines 391-392: every invocation is a *)
(* new process that runs main once).  Nothing but the files on disk        *)
(* outlives an invocation.                                                 *)
(***************************************************************************)
MaxRunEvents == 2

InitRuns == Start(MaxRunEvents)

MaxReplayEvents == 1

InitReplay == Start(MaxReplayEvents)

\* the process exits and a new one starts
restart(budget) ==
    /\ pc' = "main"
    /\ args' = NoArgs
    /\ call' = NoCall
    /\ attempts' = << >>
    /\ returns' = << >>
    /\ raises' = << >>
    /\ calls' = << >>
    /\ chunks' = [s \in Stages |-> << >>]
    /\ events_left' = budget
    /\ log_handle' = NoHandle
    /\ stdout' = << >>
    /\ stderr' = << >>
    /\ exit_code' = NoInt
    /\ escaped' = None
    /\ UNCHANGED files

ArgparseExited ==
    \E exit \in ArgparseExits :
       escaped = SystemExit(exit.code).type \o "(" \o SystemExit(exit.code).msg \o ")"

Min(a, b) == IF a < b THEN a ELSE b

\* this invocation is given what the invocation before it was given: the
\* same command line, and from the engine the same answer to every call the
\* earlier invocation made too, the same chunks and the same end of stream
Replays ==
    \A n \in DOMAIN earlier.runs :
       LET e == earlier.runs[n]
       IN /\ pc # "main" => args = e.args /\ ~ArgparseExited
          /\ \A i \in DOMAIN calls : \A j \in DOMAIN e.calls :
                (/\ calls[i].op \in {"images.get", "api.build"}
                 /\ calls[i].op = e.calls[j].op
                 /\ calls[i].stage = e.calls[j].stage
                 /\ calls[i].arg = e.calls[j].arg) => calls[i].resp = e.calls[j].resp
          /\ \A s \in Stages :
                LET ended == { j \in DOMAIN e.calls :
                                  e.calls[j].op = "next" /\ e.calls[j].stage = s }
                IN /\ \A i \in 1..Min(Len(chunks[s]), Len(e.chunks[s])) :
                         chunks[s][i] = e.chunks[s][i]
                   /\ Len(chunks[s]) > Len(e.chunks[s]) => ended = {}
                   /\ \A i \in DOMAIN calls :
                         (calls[i].op = "next" /\ calls[i].stage = s) =>
                            /\ Len(chunks[s]) = Len(e.chunks[s])
                            /\ \E j \in ended : e.calls[j].resp = calls[i].resp

\* the same command line is run again against an engine that answers as before
replay ==
    /\ pc = "done"
    /\ earlier.runs = << >>
    /\ ~ArgparseExited
    /\ earlier' = [earlier EXCEPT !.runs =
                      <<[args |-> args, calls |-> calls, chunks |-> chunks,
                         attempts |-> attempts, returns |-> returns, raises |-> raises,
                         exit_code |-> exit_code, escaped |-> escaped,
                         stdout |-> stdout, stderr |-> stderr]>>]
    /\ restart(MaxReplayEvents)

NextReplay ==
    \/ main /\ Replays'
    \/ build_all /\ Replays'
    \/ build_clang /\ Replays'
    \/ build_devcontainer /\ Replays'
    \/ devcontainer_build /\ Replays'
    \/ _stream_build_output /\ Replays'
    \/ replay

SpecReplay == InitReplay /\ [][NextReplay]_vars

\* the program is run again, with any command line; the engine goes on with
\* the chunks it has left
rerun ==
    /\ pc = "done"
    /\ ~earlier.again
    /\ LET opened == { calls[i].arg : i \in { k \in DOMAIN calls : calls[k].op = "open" } }
       IN earlier' = [earlier EXCEPT
             !.again = TRUE,
             !.builds = [p \in (DOMAIN earlier.builds) \cup opened |->
                            IF p \in opened THEN chunks["clang"] ELSE earlier.builds[p]]]
    /\ restart(events_left)

NextRuns ==
    \/ Next
    \/ rerun

SpecRuns == InitRuns /\ [][NextRuns]_vars

(***************************************************************************)
(* Properties.                                                             *)
(***************************************************************************)
Has(seq, x) == \E i \in DOMAIN seq : seq[i] = x

CallsOf(op, stage) == { i \in DOMAIN calls : calls[i].op = op /\ calls[i].stage = stage }

EngineOps == {"images.get", "api.build", "next"}

Live == args.command # None /\ ~args.dry_run

StageEnded(stage) ==
    \/ \E i \in DOMAIN returns : returns[i].stage = stage
    \/ \E i \in DOMAIN raises : raises[i].stage = stage

StageReturned(stage, rc) == Has(returns, [stage |-> stage, rc |-> rc])

\* the normalised events of the specification
IsTextChunk(c) == c.stream # None

IsErrorSignal(c) == c.stream = None /\ c.status = None /\ c.error # None

HasErrorSignal(evs) == \E i \in DOMAIN evs : IsErrorSignal(evs[i])

CompilerTag == "clang-ubuntu:" \o ToString(args.version) \o args.tag_suffix

EnvironmentTag == "devcontainer-clang:" \o ToString(args.version) \o args.tag_suffix

AllBuiltNotice ==
    "\nSuccessfully built all containers for Clang " \o ToString(args.version) \o "\n"

MissingImageNotice ==
    "Error: Base image " \o CompilerTag \o " not found. Build it first with:\n"

\* C1: in live mode build_devcontainer calls the engine's build only after
\* _image_exists answered true for clang-ubuntu:V+S in the same invocation;
\* when it answered false the stage returns 1, the invocation ends with 1
\* and no build call is made for the stage (alone or second in build_all).
C1_DependencyGate ==
    Live =>
      /\ \A i \in CallsOf("api.build", "devcontainer") :
            \E j \in 1..(i - 1) :
               /\ calls[j].op = "_image_exists"
               /\ calls[j].arg = CompilerTag
               /\ calls[j].resp = "True"
      /\ \A j \in CallsOf("_image_exists", "devcontainer") :
            calls[j].resp = "False" =>
               /\ CallsOf("api.build", "devcontainer") = {}
               /\ StageReturned("devcontainer", 1)
               /\ pc = "done" /\ exit_code = 1

C1_Witness ==
    /\ Live /\ args.command = "all" /\ pc = "done"
    /\ CallsOf("api.build", "devcontainer") # {}
    /\ StageReturned("devcontainer", 0)

StagesOf(command) ==
    IF command = "clang" THEN <<"clang">>
    ELSE IF command = "devcontainer" THEN <<"devcontainer">>
    ELSE <<"clang", "devcontainer">>

\* C2: a dry run queries no image, calls no build, pulls no stream and opens
\* no log file; it attempts the stages a successful live run of the same
\* command attempts, in that order, and each returns 0.
C2_SimulationNoEngine ==
    /\ (args.command # None /\ args.dry_run) =>
          /\ \A i \in DOMAIN calls : calls[i].op \notin (EngineOps \cup {"open"})
          /\ ~IsOpen(log_handle)
          /\ \A i \in DOMAIN returns : returns[i].rc = 0
          /\ raises = << >>
          /\ pc = "done" =>
                /\ attempts = StagesOf(args.command)
                /\ Len(returns) = Len(attempts)
                /\ exit_code = 0
    /\ (Live /\ pc = "done" /\ exit_code = 0) => attempts = StagesOf(args.command)

C2_Witness ==
    /\ args.dry_run /\ args.command = "all" /\ pc = "done"
    /\ attempts = <<"clang", "devcontainer">>
    /\ exit_code = 0

\* C3: in build_all a Compiler stage that returned non-zero ends the run with
\* that code: the Environment stage is not entered, nothing is asked of the
\* engine for it and the closing notice is not printed; the notice is printed
\* and 0 returned only when Compiler, then Environment, both returned 0.
C3_ShortCircuit ==
    args.command = "all" =>
      /\ \A i \in DOMAIN returns :
            (returns[i].stage = "clang" /\ returns[i].rc # 0) =>
               /\ attempts = <<"clang">>
               /\ \A j \in DOMAIN calls : calls[j].stage # "devcontainer"
               /\ pc = "done" /\ exit_code = returns[i].rc
               /\ ~Has(stdout, AllBuiltNotice)
      /\ (Has(stdout, AllBuiltNotice) \/ exit_code = 0) =>
            /\ returns = << [stage |-> "clang", rc |-> 0],
                            [stage |-> "devcontainer", rc |-> 0] >>
            /\ attempts = <<"clang", "devcontainer">>
            /\ Has(stdout, AllBuiltNotice) /\ exit_code = 0

C3_Witness ==
    /\ Live /\ args.command = "all" /\ pc = "done"
    /\ StageReturned("clang", 1)
    /\ chunks["clang"] # << >>

\* C4: in live mode no engine fault other than an interrupt leaves a stage
\* or main as an exception: each is turned into the return value 1.
C4_FaultContainment ==
    Live =>
      /\ escaped = None
      /\ \A i \in DOMAIN raises : raises[i].exc = "KeyboardInterrupt"

\* C5: in live mode _image_exists answers true exactly when images.get
\* returned the image and false exactly when it raised ImageNotFound; any
\* other fault is raised on, the stage is left by it and the 'base image not
\* found' diagnostic is not printed.
C5_OracleClassification ==
    Live =>
      /\ \A i \in CallsOf("_image_exists", "devcontainer") :
            /\ i > 1 /\ calls[i - 1].op = "images.get"
            /\ calls[i - 1].arg = calls[i].arg
            /\ calls[i].resp = "True" <=> calls[i - 1].resp = None
            /\ calls[i].resp = "False" <=> calls[i - 1].resp = "ImageNotFound"
            /\ calls[i].resp \notin {"True", "False"} =>
                  /\ calls[i].resp = calls[i - 1].resp
                  /\ Has(raises, [stage |-> "devcontainer", exc |-> calls[i].resp])
                  /\ ~StageReturned("devcontainer", 1)
      /\ Has(stderr, MissingImageNotice) <=>
            \E i \in CallsOf("images.get", "devcontainer") :
               calls[i].resp = "ImageNotFound"
      /\ \A i \in CallsOf("images.get", "devcontainer") :
            i < Len(calls) /\ calls[i + 1].op = "_image_exists"

C5_Witness ==
    /\ Live
    /\ \E i \in CallsOf("images.get", "devcontainer") : calls[i].resp = "APIError"
    /\ ~Has(stderr, MissingImageNotice)

RECURSIVE ExpectedLog(_)
ExpectedLog(evs) ==
    IF evs = << >> THEN ""
    ELSE IF IsErrorSignal(Head(evs)) THEN "ERROR: " \o Head(evs).error \o "\n"
    ELSE IF IsTextChunk(Head(evs)) THEN Head(evs).stream \o ExpectedLog(Tail(evs))
    ELSE ExpectedLog(Tail(evs))

FirstErrorSignal(evs) ==
    evs[CHOOSE i \in DOMAIN evs :
           IsErrorSignal(evs[i]) /\ \A j \in 1..(i - 1) : ~IsErrorSignal(evs[j])]

\* C6: when a live Compiler stage with verbose off that opened its log has
\* ended, the log file holds the texts of the TextChunks pulled before the
\* first ErrorSignal, in order, followed by "ERROR: <message>\n" exactly when
\* an ErrorSignal was pulled; the stage then returned 1 and reported the
\* message.
C6_LogFidelity ==
    (Live /\ ~args.verbose /\ StageEnded("clang")) =>
       \A i \in CallsOf("open", "clang") :
          /\ calls[i].arg \in DOMAIN files
          /\ files[calls[i].arg] = ExpectedLog(chunks["clang"])
          /\ HasErrorSignal(chunks["clang"]) =>
                /\ StageReturned("clang", 1)
                /\ Has(stderr, "Build failed: "
                               \o FirstErrorSignal(chunks["clang"]).error \o "\n")

C6_Witness ==
    /\ Live /\ ~args.verbose /\ StageReturned("clang", 1)
    /\ chunks["clang"] = << Chunk("a", None, None, None),
                            Chunk("b", None, None, "boom"),
                            Chunk(None, None, None, "boom") >>
    /\ \E i \in CallsOf("open", "clang") :
          files[calls[i].arg] = "abERROR: boom\n"

\* C7: whenever no stage is streaming no log handle is open, and every log
\* file that was opened has been closed, however the loop was left.
C7_HandleReleased ==
    pc # "stream" =>
       /\ ~IsOpen(log_handle)
       /\ \A s \in Stages : Cardinality(CallsOf("open", s)) = Cardinality(CallsOf("close", s))
       /\ \A s \in Stages : \A i \in CallsOf("open", s) :
             \E j \in CallsOf("close", s) : j > i /\ calls[j].arg = calls[i].arg

C7_Witness ==
    /\ pc = "done"
    /\ CallsOf("open", "clang") # {}
    /\ \E i \in CallsOf("next", "clang") : calls[i].resp = "APIError"
    /\ chunks["clang"] # << >>
    /\ ~IsOpen(log_handle)

\* C8: an interrupt during an engine call or while the stream is consumed
\* ends the run with 130: the stage does not return, nothing but the close
\* of the log follows it, no further stage is entered and no handle is open.
C8_Interrupt ==
    \A i \in DOMAIN calls :
       calls[i].resp = "KeyboardInterrupt" =>
          /\ pc = "done" /\ exit_code = 130 /\ escaped = None
          /\ ~IsOpen(log_handle)
          /\ attempts[Len(attempts)] = calls[i].stage
          /\ ~\E k \in DOMAIN returns : returns[k].stage = calls[i].stage
          /\ \A j \in (i + 1)..Len(calls) :
                calls[j].op \in {"close", "_image_exists"} /\ calls[j].stage = calls[i].stage
          /\ Has(stderr, "\nBuild interrupted by user\n")

C8_Witness ==
    /\ args.command = "all" /\ exit_code = 130
    /\ attempts = <<"clang">>
    /\ CallsOf("open", "clang") # {}
    /\ \E i \in CallsOf("next", "clang") : calls[i].resp = "KeyboardInterrupt"

SuccessNotice(stage) ==
    "Successfully built "
       \o (IF stage = "clang" THEN CompilerTag ELSE EnvironmentTag) \o "\n"

Exhausted(stage) == \E i \in CallsOf("next", stage) : calls[i].resp = "StopIteration"

\* C9: a live stage whose build call was made returns 0 exactly when its
\* stream was exhausted with no ErrorSignal pulled and no fault, an empty
\* stream included; its success notice is printed exactly when it returned 0.
C9_StageSuccess ==
    Live =>
       \A s \in Stages :
          /\ StageReturned(s, 0) <=>
                /\ Exhausted(s)
                /\ ~HasErrorSignal(chunks[s])
                /\ \A i \in CallsOf("api.build", s) \cup CallsOf("next", s) :
                      calls[i].resp \in {None, "StopIteration"}
          /\ Has(stdout, SuccessNotice(s)) <=> StageReturned(s, 0)
          /\ (StageEnded(s) /\ HasErrorSignal(chunks[s])) => StageReturned(s, 1)

C9_Witness ==
    /\ Live /\ StageReturned("clang", 0)
    /\ chunks["clang"] = << >>
    /\ Has(stdout, SuccessNotice("clang"))

\* C10: a log file is opened only by a live Compiler stage with verbose
\* off, at the path made from the version number alone; such a stage opens
\* exactly one once its build call returned a stream; the Environment stage,
\* verbose mode and dry-run open none.
C10_LogPolicy ==
    /\ \A i \in DOMAIN calls :
          calls[i].op = "open" =>
             /\ calls[i].stage = "clang"
             /\ Live /\ ~args.verbose
             /\ calls[i].arg = root_dir \o "/build-clang-" \o ToString(args.version) \o ".log"
    /\ Cardinality(CallsOf("open", "clang")) =
          IF Live /\ ~args.verbose
                  /\ \E i \in CallsOf("api.build", "clang") : calls[i].resp = None
          THEN 1 ELSE 0
    /\ IsOpen(log_handle) => CallsOf("open", "clang") # {}

C10_Witness ==
    /\ Live /\ ~args.verbose /\ args.command = "all" /\ args.tag_suffix = ""
    /\ pc = "done" /\ exit_code = 0
    /\ Cardinality(CallsOf("open", "clang")) = 1
    /\ CallsOf("api.build", "devcontainer") # {}

\* C11: whenever the gate of build_devcontainer fails for version V and
\* suffix S, the command named in the diagnostic is one that builds exactly
\* the missing tag clang-ubuntu:V+S, the stage returns 1 and no engine build
\* call is made.
C11_RemediationExact ==
    \A i \in CallsOf("_image_exists", "devcontainer") :
       calls[i].resp = "False" =>
          /\ \E argv \in { hint_argv(args.version, args.tag_suffix) } :
                /\ Has(stderr, "  ./build_containers.py " \o join(argv) \o "\n")
                /\ tag_built_by(argv) = calls[i].arg
          /\ calls[i].arg = CompilerTag
          /\ StageReturned("devcontainer", 1)
          /\ CallsOf("api.build", "devcontainer") = {}

Interrupted == \E i \in DOMAIN calls : calls[i].resp = "KeyboardInterrupt"

HelpAsked == Has(stdout, "usage: build_containers.py [-h]\n")

UsageError ==
    \E i \in DOMAIN stderr :
       stderr[i] \in { "build_containers.py clang: error: the following arguments are required: --version\n",
                       "build_containers.py clang: error: argument --version: invalid int value: 'x'\n" }

\* what the engine and the mode say about a stage, whatever the stage returned
StageSucceeded(stage) ==
    \/ args.dry_run
    \/ Exhausted(stage) /\ ~HasErrorSignal(chunks[stage])

AllAttemptedSucceeded ==
    /\ attempts # << >>
    /\ \A i \in DOMAIN attempts : StageSucceeded(attempts[i])
    /\ ~Interrupted

\* C12 as stated: every run ends with a status in {0, 1, 130}: 0 exactly
\* when every attempted stage succeeded, 130 exactly for an interrupt, and 1
\* for every failure, a rejected command line and a missing command
\* included.
C12_ExitCodes ==
    pc = "done" =>
       /\ exit_status \in {0, 1, 130}
       /\ exit_status = 0 =>
             \A i \in DOMAIN attempts : StageSucceeded(attempts[i]) /\ ~Interrupted
       /\ AllAttemptedSucceeded => exit_status = 0
       /\ exit_status = 130 <=> Interrupted
       /\ (UsageError \/ (args.command = None /\ ~HelpAsked)) => exit_status = 1

\* C12, amended: every run ends with a status in {0, 1, 2, 130}: 0 exactly
\* when a stage was attempted and every attempted stage succeeded, or help
\* was asked for; 2 exactly when argparse rejects the command line; 130
\* exactly for an interrupt; 1 in every other case (a build, engine or
\* prerequisite failure, a missing command).
C12_ExitCodesAmended ==
    pc = "done" =>
       /\ exit_status \in {0, 1, 2, 130}
       /\ exit_status = 0 <=> (AllAttemptedSucceeded \/ HelpAsked)
       /\ exit_status = 2 <=> UsageError
       /\ exit_status = 130 <=> Interrupted
       /\ (args.command = None /\ ~HelpAsked /\ ~UsageError) => exit_status = 1

C12_Witness ==
    /\ pc = "done"
    /\ UsageError
    /\ exit_status = 2
    /\ attempts = << >>

IsStatusUpdate(c) == c.stream = None /\ c.status # None

IsEmptyEvent(c) == c.stream = None /\ c.status = None /\ c.error = None

EventLine(c) ==
    IF c.id # None THEN c.id \o ": " \o c.status \o "\n" ELSE c.status \o "\n"

\* what verbose output shows of a sequence of events, in order
RECURSIVE Shown(_)
Shown(evs) ==
    IF evs = << >> THEN << >>
    ELSE IF IsErrorSignal(Head(evs)) THEN << >>
    ELSE IF IsTextChunk(Head(evs)) THEN <<Head(evs).stream>> \o Shown(Tail(evs))
    ELSE IF IsStatusUpdate(Head(evs)) THEN <<EventLine(Head(evs))>> \o Shown(Tail(evs))
    ELSE Shown(Tail(evs))

IsShown(line) ==
    \E c \in Chunks :
       \/ IsTextChunk(c) /\ line = c.stream
       \/ IsStatusUpdate(c) /\ line = EventLine(c)

\* C14: events are handled one at a time in the order the engine emits
\* them, and the first ErrorSignal ends the stream: it is the last event
\* pulled, no further event is asked for, the stage has returned 1, and the
\* log and the verbose output hold exactly the events before it, in order.
C14_ErrorEndsStream ==
    /\ \A s \in Stages :
          /\ \A i \in 1..(Len(chunks[s]) - 1) : ~IsErrorSignal(chunks[s][i])
          /\ HasErrorSignal(chunks[s]) =>
                /\ pc # "stream"
                /\ StageReturned(s, 1)
                /\ CallsOf("next", s) = {}
    /\ (args.command # None /\ args.verbose) =>
          SelectSeq(stdout, IsShown) = Shown(chunks["clang"]) \o Shown(chunks["devcontainer"])
    /\ (args.command # None /\ ~args.verbose) => SelectSeq(stdout, IsShown) = << >>
    /\ \A i \in CallsOf("open", "clang") :
          files[calls[i].arg] = ExpectedLog(chunks["clang"])

C14_Witness ==
    /\ args.verbose
    /\ chunks["devcontainer"] =
          <<Chunk("a", None, None, None), Chunk(None, "Pulling", "layer1", None),
            Chunk(None, None, None, "boom")>>
    /\ StageReturned("devcontainer", 1)

ActiveStages == { s \in Stages : Has(attempts, s) /\ ~StageEnded(s) /\ pc # "done" }

OpenHandles ==
    Cardinality({ i \in DOMAIN calls : calls[i].op = "open" })
       - Cardinality({ i \in DOMAIN calls : calls[i].op = "close" })

\* C15: stages never overlap: at most one stage is active and at most one
\* log handle is open at any time, and in the full pipeline the Environment
\* stage asks the engine for the base image only after the Compiler stage has
\* returned and its log has been closed.
C15_NoOverlap ==
    /\ Cardinality(ActiveStages) <= 1
    /\ \A i \in 1..(Len(attempts) - 1) : StageEnded(attempts[i])
    /\ OpenHandles = (IF IsOpen(log_handle) THEN 1 ELSE 0)
    /\ \A i \in DOMAIN calls :
          (calls[i].stage = "devcontainer" /\ Has(attempts, "clang")) =>
             /\ \E k \in DOMAIN returns : returns[k].stage = "clang"
             /\ \A j \in DOMAIN calls : calls[j].stage = "clang" => j < i
             /\ \A j \in CallsOf("open", "clang") :
                   \E k \in CallsOf("close", "clang") : j < k /\ k < i

C15_Witness ==
    /\ args.command = "all" /\ Live
    /\ CallsOf("open", "clang") # {}
    /\ CallsOf("images.get", "devcontainer") # {}
    /\ chunks["clang"] # << >>

\* C16: each handled event goes to the sinks of its kind: a TextChunk is
\* appended verbatim to the log when a handle is open and printed exactly
\* when verbose is on; a StatusUpdate is printed, as "<id>: <message>" or
\* "<message>", exactly when verbose is on and never changes the log.
C16_SinkRouting ==
    [][\A s \in Stages : \A c \in Chunks :
          chunks'[s] = Append(chunks[s], c) =>
             /\ IsTextChunk(c) =>
                   /\ stdout' = IF args.verbose THEN Append(stdout, c.stream) ELSE stdout
                   /\ files' = IF IsOpen(log_handle)
                               THEN [files EXCEPT ![log_handle.path] = @ \o c.stream]
                               ELSE files
             /\ IsStatusUpdate(c) =>
                   /\ stdout' = IF args.verbose THEN Append(stdout, EventLine(c)) ELSE stdout
                   /\ files' = files
                   /\ log_handle' = log_handle]_vars

C16_Witness ==
    /\ args.verbose
    /\ \E s \in Stages :
          /\ \E i \in DOMAIN chunks[s] : chunks[s][i] = Chunk(None, "Pulling", "layer1", None)
          /\ \E i \in DOMAIN chunks[s] : IsTextChunk(chunks[s][i])
    /\ Has(stdout, "layer1: Pulling\n")

SavedNotice(path) == "Build log saved to: " \o path \o "\n"

NoticeCount(path) == Cardinality({ i \in DOMAIN stdout : stdout[i] = SavedNotice(path) })

\* C17: the notice that names the saved log is printed exactly once for
\* every stage run that opened a log, once the handle is closed, however the
\* stream was left, and never for a stage that opened no log.
C17_LogNotice ==
    /\ \A p \in LogPaths :
          /\ NoticeCount(p) =
                Cardinality({ i \in CallsOf("close", "clang") : calls[i].arg = p })
          /\ pc # "stream" =>
                NoticeCount(p) =
                   Cardinality({ i \in CallsOf("open", "clang") : calls[i].arg = p })
          /\ NoticeCount(p) <= 1
          /\ NoticeCount(p) = 1 => ~IsOpen(log_handle)
    /\ NoticeCount(None) = 0
    /\ CallsOf("open", "devcontainer") = {}

C17_Witness ==
    /\ exit_code = 130
    /\ NoticeCount(root_dir \o "/build-clang-21.log") = 1
    /\ chunks["clang"] # << >>

\* C18: the tag the dependency gate asks the engine for is the tag the
\* Compiler stage builds for the same version and suffix; a standalone stage
\* uses the version and suffix it was given, and in the full pipeline both
\* stages use the same version with an empty suffix.
C18_TagAgreement ==
    /\ \A v \in Versions : \A t \in TagSuffixes : clang_base_image(v, t) = clang_tag(v, t)
    /\ \A i \in CallsOf("images.get", "devcontainer") :
          calls[i].arg = "clang-ubuntu:" \o ToString(args.version)
                            \o (IF args.command = "all" THEN "" ELSE args.tag_suffix)
    /\ \A j \in CallsOf("api.build", "clang") :
          calls[j].arg = "clang-ubuntu:" \o ToString(args.version)
                            \o (IF args.command = "all" THEN "" ELSE args.tag_suffix)
    /\ \A i \in CallsOf("images.get", "devcontainer") :
          \A j \in CallsOf("api.build", "clang") : calls[i].arg = calls[j].arg

C18_Witness ==
    /\ args.command = "all"
    /\ StageReturned("clang", 0)
    /\ \E i \in CallsOf("images.get", "devcontainer") :
          /\ calls[i].resp = None
          /\ \E j \in CallsOf("api.build", "clang") : j < i /\ calls[j].arg = calls[i].arg

\* C19: a raw event is classified by the first key it carries among
\* 'stream', 'status', 'error': an event ends the stage in failure exactly
\* when it carries 'error' and neither 'stream' nor 'status'; an event with
\* 'error' next to 'stream' or 'status' is handled as text or status and
\* reports no error; an event with none of the three changes neither log,
\* output nor outcome.
C19_Classification ==
    [][\A s \in Stages : \A c \in Chunks :
          chunks'[s] = Append(chunks[s], c) =>
             /\ IsErrorSignal(c) <=> pc' # "stream"
             /\ IsErrorSignal(c) <=> returns' = Append(returns, [stage |-> s, rc |-> 1])
             /\ IsErrorSignal(c) <=> stderr' # stderr
             /\ ~IsErrorSignal(c) => returns' = returns /\ raises' = raises
             /\ (c.stream # None /\ c.error # None) =>
                   /\ stdout' = IF args.verbose THEN Append(stdout, c.stream) ELSE stdout
                   /\ IsOpen(log_handle) =>
                         files' = [files EXCEPT ![log_handle.path] = @ \o c.stream]
             /\ (c.stream = None /\ c.status # None /\ c.error # None) =>
                   /\ stdout' = IF args.verbose THEN Append(stdout, EventLine(c)) ELSE stdout
                   /\ files' = files
             /\ IsEmptyEvent(c) =>
                   UNCHANGED <<pc, files, stdout, stderr, log_handle, returns, raises,
                               exit_code, escaped>>]_vars

C19_Witness ==
    \E s \in Stages :
       /\ StageReturned(s, 0)
       /\ \E i \in DOMAIN chunks[s] : chunks[s][i].stream # None /\ chunks[s][i].error # None
       /\ \E i \in DOMAIN chunks[s] :
             chunks[s][i].stream = None /\ chunks[s][i].status # None /\ chunks[s][i].error # None
       /\ \E i \in DOMAIN chunks[s] : IsEmptyEvent(chunks[s][i])

IsPrefix(a, b) == Len(a) <= Len(b) /\ \A i \in DOMAIN a : a[i] = b[i]

Times(seq, x) == Cardinality({ i \in DOMAIN seq : seq[i] = x })

\* C13: within one invocation no stage is entered twice and each stage makes
\* at most one build call and at most one image query; and an invocation
\* given the command line and the engine answers of an earlier one goes
\* through the same stage attempts, calls with the same tags, and returns,
\* never stops short of the end, and ends with the same attempts, outcomes,
\* exit status and output.
C13_Determinism ==
    /\ \A s \in Stages :
          /\ Times(attempts, s) <= 1
          /\ Cardinality(CallsOf("api.build", s)) <= 1
          /\ Cardinality(CallsOf("images.get", s)) <= 1
    /\ \A n \in DOMAIN earlier.runs :
          LET e == earlier.runs[n]
          IN /\ IsPrefix(attempts, e.attempts)
             /\ IsPrefix(calls, e.calls)
             /\ IsPrefix(returns, e.returns)
             /\ IsPrefix(raises, e.raises)
             /\ pc # "done" => ENABLED NextReplay
             /\ pc = "done" =>
                   /\ attempts = e.attempts
                   /\ calls = e.calls
                   /\ chunks = e.chunks
                   /\ returns = e.returns
                   /\ raises = e.raises
                   /\ exit_code = e.exit_code
                   /\ escaped = e.escaped
                   /\ stdout = e.stdout
                   /\ stderr = e.stderr

C13_Witness ==
    /\ earlier.runs # << >>
    /\ pc = "done"
    /\ args.command = "all"
    /\ returns = <<[stage |-> "clang", rc |-> 0], [stage |-> "devcontainer", rc |-> 1]>>
    /\ chunks["clang"] # << >>
    /\ \E i \in CallsOf("images.get", "devcontainer") : calls[i].resp = "ImageNotFound"

LogOf(version) == root_dir \o "/build-clang-" \o ToString(version) \o ".log"

OpenedNow(path) == \E i \in CallsOf("open", "clang") : calls[i].arg = path

\* C20: a Compiler build opens the log at a path made of the version alone,
\* whatever its tag suffix and source ref, and every log on disk holds
\* exactly the output of the latest build that opened it, in this invocation
\* or an earlier one, with nothing of what it held before; a log no build
\* opened is as it was.
C20_LogOverwrite ==
    /\ \A i \in CallsOf("open", "clang") : calls[i].arg = LogOf(args.version)
    /\ \A i \in CallsOf("api.build", "clang") :
          (calls[i].resp = None /\ ~args.verbose) => OpenedNow(LogOf(args.version))
    /\ DOMAIN earlier.builds \subseteq { LogOf(v) : v \in Versions }
    /\ DOMAIN files \subseteq { LogOf(v) : v \in Versions }
    /\ \A v \in Versions :
          LET path == LogOf(v)
          IN IF OpenedNow(path)
             THEN files[path] = ExpectedLog(chunks["clang"])
             ELSE IF path \in DOMAIN earlier.builds
             THEN files[path] = ExpectedLog(earlier.builds[path])
             ELSE IF v \in OldVersions
             THEN files[path] = OldLog
             ELSE path \notin DOMAIN files

C20_Witness ==
    /\ pc = "done"
    /\ LogOf(20) \in DOMAIN earlier.builds
    /\ earlier.builds[LogOf(20)] = <<Chunk("a", None, None, None)>>
    /\ args.tag_suffix = "-dbg" /\ args.git_ref = "main"
    /\ OpenedNow(LogOf(20))
    /\ files[LogOf(20)] = "b"

====
